---- MODULE Spec2Model ----
(***************************************************************************)
(* A model of app.py of health_data: the JSON cache (fetch_json), the      *)
(* disease resolver (find_disease_key, extract_disease_from_text), the     *)
(* symptom query (process_symptom_query) and the two webhooks.             *)
(*                                                                         *)
(* Text is a sequence of characters.  A fixed phrase of the program's      *)
(* replies is one symbol of the alphabet, so that the substring tests the  *)
(* code makes on its own replies are substring tests here too.             *)
(***************************************************************************)
EXTENDS Integers, Sequences, FiniteSets, TLC

VARIABLES
    data_cache,   \* app.py:15, url -> parsed document (a dict: the domain grows)
    remote,       \* what each url serves right now (the GitHub raw host)
    pc,           \* per worker: where it is inside fetch_json
    url,          \* per worker: the argument of the fetch_json call in progress
    data,         \* per worker: the local `data` of line 25
    ret,          \* per worker: what its last fetch_json call returned
    hit,          \* per worker: whether its last call was answered from the cache
    calls,        \* history: fetch_json calls started, per url
    coldCalls,    \* history: calls started while the url had no cache entry
    sawCached,    \* history, per worker: the url had an entry when its call began
    fetches,      \* history: network retrievals (line 23), per url
    writes,       \* history: cache writes (line 26), per url
    first,        \* history: the document the first successful retrieval parsed
    user_input,   \* find_disease_key: the text to resolve
    diseases_data,\* find_disease_key: the disease table
    disease_key,  \* find_disease_key: what it returned
    resolved,     \* whether disease_key is the result for user_input
    symptoms_list,       \* process_symptom_query: its argument
    mapping_data,        \* process_symptom_query: the symptom -> diseases mapping
    normalized_symptoms, \* line 106
    not_found,           \* line 115
    possible_diseases,   \* line 103, a set
    listing,             \* the order in which line 131 iterates possible_diseases
    phase,               \* "input", "done" (queried), "repeated" (queried again)
    prev_possible,       \* history: possible_diseases of the query before the last
    request,      \* the HTTP request being served
    handled,      \* whether its handler has returned
    sent,         \* the responses the handler returned for it
    fault,        \* history: an exception reached the handler's except branch
    trace,        \* history: the calls the handler made, in order
    nrequests     \* requests received so far

cacheVars ==
    <<data_cache, remote, pc, url, data, ret, hit, calls, coldCalls, sawCached,
      fetches, writes, first>>

resolveVars == <<user_input, diseases_data, disease_key, resolved>>

symptomVars ==
    <<symptoms_list, mapping_data, normalized_symptoms, not_found, possible_diseases,
      listing, phase, prev_possible>>

handlerVars == <<request, handled, sent, fault, trace, nrequests>>

nonCacheVars == <<resolveVars, symptomVars, handlerVars>>

\* ---------------------------------------------------------------- bounds

NumWorkers == 2
MaxCalls == 2
MaxDiseases == 2
MaxSynonyms == 1
MaxNameLen == 1
MaxSymptoms == 2
MaxMapKeys == 2
MaxRequests == 2
MaxMessageLen == 2
MaxFails == 3

\* ---------------------------------------------------------------- text

SORRY == "Sorry, I do not have information"
sorry_lower == "sorry, i do not have information"

\* str.lower() on one character
LowerChar(c) ==
    CASE c = "A" -> "a"
      [] c = "B" -> "b"
      [] c = "F" -> "f"
      [] c = "C" -> "c"
      [] c = SORRY -> sorry_lower
      [] OTHER -> c

\* str.lower()
Lower(s) == [i \in 1..Len(s) |-> LowerChar(s[i])]

IsSpace(c) == c = " "

\* str.strip()
RECURSIVE LStrip(_)
LStrip(s) == IF s # <<>> /\ IsSpace(Head(s)) THEN LStrip(Tail(s)) ELSE s

RECURSIVE RStrip(_)
RStrip(s) ==
    IF s # <<>> /\ IsSpace(s[Len(s)]) THEN RStrip(SubSeq(s, 1, Len(s) - 1)) ELSE s

Strip(s) == RStrip(LStrip(s))

\* `sub in s` on strings
Contains(sub, s) ==
    \E i \in 0..(Len(s) - Len(sub)) : SubSeq(s, i + 1, i + Len(sub)) = sub

\* s.split(","): the pieces between the commas, empty ones included
RECURSIVE SplitFrom(_, _)
SplitFrom(s, cur) ==
    IF s = <<>> THEN <<cur>>
    ELSE IF Head(s) = "," THEN <<cur>> \o SplitFrom(Tail(s), <<>>)
    ELSE SplitFrom(Tail(s), Append(cur, Head(s)))

Split(s) == SplitFrom(s, <<>>)

\* sep.join(parts)
RECURSIVE Join(_, _)
Join(sep, parts) ==
    IF parts = <<>> THEN <<>>
    ELSE IF Len(parts) = 1 THEN parts[1]
    ELSE parts[1] \o sep \o Join(sep, Tail(parts))

\* All texts of at most n characters of the alphabet
Texts(alphabet, n) == UNION {[1..k -> alphabet] : k \in 0..n}

\* All sequences of at most n elements of S, and those without a repeated element
SeqsUpTo(S, n) == UNION {[1..k -> S] : k \in 0..n}

\* ---------------------------------------------------------------- documents

\* A parsed JSON document: a mapping (its items in insertion order) or, when the
\* host serves something else, a JSON array.
Mapping(items) == [shape |-> "mapping", items |-> items]
JsonArray == [shape |-> "array", items |-> <<>>]
EmptyDoc == Mapping(<<>>)

Item(k, v) == [key |-> k, value |-> v]

\* Two disease names
Flu == <<"F">>
Cold == <<"C">>

DISEASES_URL == "diseases.json"
SYMPTOMS_URL == "symptoms.json"
PREVENTIONS_URL == "preventions.json"
MAPPING_URL == "mapping.json"

Urls == {DISEASES_URL, SYMPTOMS_URL, PREVENTIONS_URL, MAPPING_URL}

\* What a url can serve: no answer at all, or a status with a body.
Unreachable == [net |-> "error", status |-> 0, json |-> FALSE, doc |-> EmptyDoc]
Served(status, doc) == [net |-> "ok", status |-> status, json |-> TRUE, doc |-> doc]
Garbage == [net |-> "ok", status |-> 200, json |-> FALSE, doc |-> EmptyDoc]

\* Lines 23-25: requests.get raises on a network error, raise_for_status on a
\* status of 400 or more, response.json() on a body that is no JSON.
RetrievalFails(r) == r.net = "error" \/ r.status >= 400 \/ ~r.json

\* response.json()
ParseJson(r) == r.doc

InCache_never(cache, u) == FALSE

\* Line 20
InCache(cache, u) == u \in DOMAIN cache

\* Line 26
Store(cache, u, d) == [v \in DOMAIN cache \cup {u} |-> IF v = u THEN d ELSE cache[v]]

OnFailure_cachesEmpty(cache, u) == Store(cache, u, EmptyDoc)

\* Lines 28-30: what the except branch does to the cache
OnFailure(cache, u) == cache

\* dict.keys()
Keys(doc) == [i \in 1..Len(doc.items) |-> doc.items[i].key]

\* dict.get(k, default)
Get(doc, k, default) ==
    IF \E i \in 1..Len(doc.items) : doc.items[i].key = k
    THEN doc.items[CHOOSE i \in 1..Len(doc.items) : doc.items[i].key = k].value
    ELSE default

\* A Python value that may be None
None == [found |-> FALSE, key |-> <<>>]
Some(k) == [found |-> TRUE, key |-> k]

\* `if x:` on a value that is None or a string
Truthy(x) == x.found /\ x.key # <<>>

\* ---------------------------------------------------------------- find_disease_key

\* info.get("synonyms", [])
Synonyms(info) == info.synonyms

\* Lines 36-40: one entry of the table matches the lowered input
EntryMatches(item, low) ==
    \/ Lower(item.key) = low
    \/ \E j \in 1..Len(Synonyms(item.value)) : Lower(Synonyms(item.value)[j]) = low

\* Lines 35-41: the entries in table order, the first that matches wins
RECURSIVE FindFrom(_, _, _)
FindFrom(items, i, low) ==
    IF i > Len(items) THEN None
    ELSE IF EntryMatches(items[i], low) THEN Some(items[i].key)
    ELSE FindFrom(items, i + 1, low)

\* Lines 32-41
find_disease_key(input, table) == FindFrom(table.items, 1, Lower(input))

\* ---------------------------------------------------------------- process_symptom_query

Range(q) == {q[i] : i \in 1..Len(q)}

\* Line 109: [part.strip() for part in parts if part.strip()]
RECURSIVE StrippedNonEmpty(_)
StrippedNonEmpty(parts) ==
    IF parts = <<>> THEN <<>>
    ELSE IF Strip(Head(parts)) # <<>>
         THEN <<Strip(Head(parts))>> \o StrippedNonEmpty(Tail(parts))
         ELSE StrippedNonEmpty(Tail(parts))

\* Lines 108-112: the tokens one element of symptoms_list adds
TokensOf(s) ==
    IF Contains(<<",">>, s) THEN StrippedNonEmpty(Split(s)) ELSE <<Strip(s)>>

\* Lines 106-112
RECURSIVE Normalize(_)
Normalize(list) ==
    IF list = <<>> THEN <<>> ELSE TokensOf(Head(list)) \o Normalize(Tail(list))

\* Lines 119-123: the first key equal to the symptom ignoring case, 0 when none
RECURSIVE MatchingKey(_, _, _)
MatchingKey(items, i, low) ==
    IF i > Len(items) THEN 0
    ELSE IF Lower(items[i].key) = low THEN i
    ELSE MatchingKey(items, i + 1, low)

Update_overwrites(possible, diseases) == Range(diseases)

\* Line 121: possible_diseases.update(diseases)
Update(possible, diseases) == possible \cup Range(diseases)

\* Lines 115-125
RECURSIVE CheckMapping(_, _, _, _)
CheckMapping(normalized, mapping, possible, notFound) ==
    IF normalized = <<>>
    THEN [possible_diseases |-> possible, not_found |-> notFound]
    ELSE LET symptom == Head(normalized)
             i == MatchingKey(mapping.items, 1, Lower(symptom))
         IN  IF i > 0
             THEN CheckMapping(Tail(normalized), mapping,
                               Update(possible, mapping.items[i].value), notFound)
             ELSE CheckMapping(Tail(normalized), mapping, possible,
                               Append(notFound, symptom))

\* The orders in which a set can be iterated
Orders(S) == {q \in [1..Cardinality(S) -> S] : Range(q) = S}

\* ---------------------------------------------------------------- calls inside a request

\* What a request carries from call to call: the cache, how many more retrievals
\* of each url fail before one succeeds, the iteration order of the set of line
\* 131, and the record of the calls made (history).
CallState(cache, fails, pick) == [cache |-> cache, fails |-> fails, pick |-> pick, log |-> <<>>]

Ret(st, val) == [st |-> st, val |-> val, exc |-> FALSE]
Raise(st) == [st |-> st, val |-> <<>>, exc |-> TRUE]

Event(fn, caller, arg, doc, res, ok) ==
    [fn |-> fn, caller |-> caller, arg |-> arg, doc |-> doc, res |-> res, ok |-> ok]

Log(st, ev) == [st EXCEPT !.log = Append(@, ev)]

\* Lines 18-30, run to its return: what this retrieval attempt gets is the host's
\* answer, or no answer while failures are still due
fetch_json(st, u) ==
    IF InCache(st.cache, u)
    THEN Ret(st, st.cache[u])
    ELSE LET r == IF st.fails[u] > 0 THEN Unreachable ELSE remote[u]
         IN  IF RetrievalFails(r)
             THEN Ret([st EXCEPT !.cache = OnFailure(st.cache, u),
                                 !.fails[u] = IF @ > 0 THEN @ - 1 ELSE 0],
                      EmptyDoc)
             ELSE Ret([st EXCEPT !.cache = Store(st.cache, u, ParseJson(r))],
                      ParseJson(r))

ScanKeys_last(keys, i, text) ==
    IF \E j \in 1..Len(keys) : Contains(Lower(keys[j]), Lower(text))
    THEN Some(keys[CHOOSE j \in 1..Len(keys) :
                     /\ Contains(Lower(keys[j]), Lower(text))
                     /\ \A m \in (j + 1)..Len(keys) : ~Contains(Lower(keys[m]), Lower(text))])
    ELSE None

\* Lines 46-49: the first key, in table order, that occurs in the text
RECURSIVE ScanKeys(_, _, _)
ScanKeys(keys, i, text) ==
    IF i > Len(keys) THEN None
    ELSE IF Contains(Lower(keys[i]), Lower(text)) THEN Some(keys[i])
    ELSE ScanKeys(keys, i + 1, text)

\* Lines 43-49; .keys() raises on a document that is no mapping
extract_disease_from_text(st, text, caller) ==
    LET f == fetch_json(st, DISEASES_URL)
    IN  IF f.val.shape # "mapping" THEN Raise(f.st)
        ELSE LET k == ScanKeys(Keys(f.val), 1, text)
             IN  Ret(Log(f.st, Event("extract_disease_from_text", caller, text, f.val,
                                     k, Truthy(k))), k)

\* Lines 55-57: the keys that occur in the text, in table order
RECURSIVE Detected(_, _)
Detected(keys, text) ==
    IF keys = <<>> THEN <<>>
    ELSE IF Contains(Lower(Head(keys)), Lower(text))
         THEN <<Head(keys)>> \o Detected(Tail(keys), text)
         ELSE Detected(Tail(keys), text)

\* Lines 51-58
extract_symptoms_from_text(st, text, caller) ==
    LET f == fetch_json(st, MAPPING_URL)
    IN  IF f.val.shape # "mapping" THEN Raise(f.st)
        ELSE LET d == Detected(Keys(f.val), text)
             IN  Ret(Log(f.st, Event("extract_symptoms_from_text", caller, text, f.val,
                                     d, d # <<>>)), d)

\* Lines 60-63 and 65-68; .get raises on a document that is no mapping
get_list(st, u, disease_name) ==
    LET f == fetch_json(st, u)
    IN  IF f.val.shape # "mapping" THEN Raise(f.st)
        ELSE Ret(f.st, Get(f.val, disease_name, <<>>))

get_symptoms(st, disease_name) == get_list(st, SYMPTOMS_URL, disease_name)
get_preventions(st, disease_name) == get_list(st, PREVENTIONS_URL, disease_name)

CommaSpace == <<",", " ">>

\* Lines 86-96
DiseaseReply(disease, symptoms, preventions) ==
    <<"Here's what I found about ">> \o disease \o <<":">>
    \o (IF symptoms # <<>>
        THEN <<"\nSymptoms: ">> \o Join(CommaSpace, symptoms) \o <<".">>
        ELSE <<"\n(No symptoms data available.)">>)
    \o (IF preventions # <<>>
        THEN <<"\nPrevention: ">> \o Join(CommaSpace, preventions)
        ELSE <<"\n(No prevention info available.)">>)

\* Line 98
NotFoundReply(text) == <<SORRY, " about '">> \o text \o <<"'.">>

\* Lines 75-98; .items() in find_disease_key raises on a document that is no mapping
process_disease_query(st, text) ==
    LET f == fetch_json(st, DISEASES_URL)
    IN  IF f.val.shape # "mapping" THEN Raise(f.st)
        ELSE
        LET k1 == find_disease_key(text, f.val)
            s1 == Log(f.st, Event("find_disease_key", "process_disease_query", text,
                                  f.val, k1, Truthy(k1)))
            e == IF Truthy(k1) THEN Ret(s1, k1)
                 ELSE extract_disease_from_text(s1, text, "process_disease_query")
        IN  IF e.exc THEN e
            ELSE IF Truthy(e.val)
            THEN LET sy == get_symptoms(e.st, e.val.key)
                     pv == get_preventions(sy.st, e.val.key)
                     reply == DiseaseReply(e.val.key, sy.val, pv.val)
                 IN  IF sy.exc THEN sy
                     ELSE IF pv.exc THEN pv
                     ELSE Ret(Log(pv.st, Event("process_disease_query", "", text, f.val,
                                               reply, TRUE)), reply)
            ELSE Ret(Log(e.st, Event("process_disease_query", "", text, f.val,
                                     NotFoundReply(text), FALSE)),
                     NotFoundReply(text))

\* The order in which the set is iterated: one of its orders, by the hash seed
Listing(S, pick) ==
    LET o == Orders(S)
        a == CHOOSE q \in o : TRUE
    IN  IF pick = 1 \/ o = {a} THEN a ELSE CHOOSE q \in o \ {a} : TRUE

NoSymptomInfo == <<"Sorry, no disease info found for the given symptom(s).">>

JoinedParts_noFallback(parts) == Join(<<"\n">>, parts)

\* Line 136
JoinedParts(parts) == IF parts # <<>> THEN Join(<<"\n">>, parts) ELSE NoSymptomInfo

\* Lines 128-136
SymptomReply(normalized, diseases, notFound) ==
    JoinedParts(
        (IF diseases # <<>>
         THEN << <<"Based on the symptom(s) ">> \o Join(CommaSpace, normalized)
                 \o <<", possible diseases are: ">> \o Join(CommaSpace, diseases)
                 \o <<".">> >>
         ELSE <<>>)
        \o (IF notFound # <<>>
            THEN << <<"Symptoms not found in mapping: ">> \o Join(CommaSpace, notFound)
                    \o <<".">> >>
            ELSE <<>>))

\* Lines 100-136; .items() of line 119 raises on a document that is no mapping
process_symptom_query(st, list, caller) ==
    LET f == fetch_json(st, MAPPING_URL)
        normalized == Normalize(list)
    IN  IF f.val.shape # "mapping" /\ normalized # <<>> THEN Raise(f.st)
        ELSE LET checked == CheckMapping(normalized, f.val, {}, <<>>)
                 reply == SymptomReply(normalized,
                                       Listing(checked.possible_diseases, st.pick),
                                       checked.not_found)
             IN  Ret(Log(f.st, Event("process_symptom_query", caller, list, f.val,
                                     reply, checked.possible_diseases # {})), reply)

\* ---------------------------------------------------------------- the webhooks

\* A parameter of the Dialogflow request: missing, a string or a list of strings
Absent == [kind |-> "absent", s |-> <<>>, l |-> <<>>]
Str(x) == [kind |-> "str", s |-> x, l |-> <<>>]
List(q) == [kind |-> "list", s |-> <<>>, l |-> q]

\* `if p:` on a parameter
ParamTruthy(p) == (p.kind = "str" /\ p.s # <<>>) \/ (p.kind = "list" /\ p.l # <<>>)

TwilioRequest(body) ==
    [route |-> "twilio", body |-> body, malformed |-> FALSE, intent |-> "",
     diseases |-> Absent, symptoms |-> Absent, queryText |-> <<>>]

WebhookRequest(malformed, intent, diseases, symptoms, queryText) ==
    [route |-> "webhook", body |-> <<>>, malformed |-> malformed, intent |-> intent,
     diseases |-> diseases, symptoms |-> symptoms, queryText |-> queryText]

NoRequest == TwilioRequest(<<>>)

DefaultText == <<"Sorry, I could not find information.">>
WebhookApology == <<"Sorry, something went wrong on the server.">>
TwilioApology == <<"Sorry, something went wrong.">>
Prompt == <<"Please enter a disease name or symptom to get info.">>

\* Lines 162-174: one list of a disease, or the sentence that there is none
ListReply(listed, disease, some, none) ==
    IF listed # <<>>
    THEN <<some>> \o disease \o <<": ">> \o Join(CommaSpace, listed) \o <<".">>
    ELSE <<none>> \o disease \o <<".">>

\* Lines 143-190, the try block of webhook
webhook(st, req) ==
    IF req.malformed THEN Raise(st)
    ELSE
    LET given == ParamTruthy(req.diseases)
        e == IF given THEN Ret(st, None)
             ELSE extract_disease_from_text(st, req.queryText, "webhook")
        disease == IF given
                   THEN (IF req.diseases.kind = "list" THEN req.diseases.l[1]
                         ELSE req.diseases.s)
                   ELSE e.val.key
    IN  IF e.exc THEN e
        ELSE IF given \/ Truthy(e.val)
        THEN IF req.intent = "symptoms_info"
             THEN LET sy == get_symptoms(e.st, disease)
                  IN  IF sy.exc THEN sy
                      ELSE Ret(sy.st, ListReply(sy.val, disease, "Symptoms of ",
                                                "Sorry, I don't have symptom info for "))
             ELSE IF req.intent = "preventions_info"
             THEN LET pv == get_preventions(e.st, disease)
                  IN  IF pv.exc THEN pv
                      ELSE Ret(pv.st, ListReply(pv.val, disease, "Prevention for ",
                                                "Sorry, I don't have prevention info for "))
             ELSE process_disease_query(e.st, disease)
        ELSE IF req.intent = "symptoms_info"
        THEN LET p == req.symptoms
                 listed == IF p.kind = "str" THEN <<p.s>> ELSE p.l
                 x == IF listed # <<>> THEN Ret(e.st, listed)
                      ELSE extract_symptoms_from_text(e.st, req.queryText, "webhook")
             IN  IF x.exc THEN x
                 ELSE IF x.val # <<>> THEN process_symptom_query(x.st, x.val, "webhook")
                 ELSE Ret(x.st, DefaultText)
        ELSE Ret(e.st, DefaultText)

\* Lines 201-213, the try block of twilio_webhook up to the reply
twilio_webhook(st, body) ==
    LET incoming_msg == Strip(body)
    IN  IF incoming_msg = <<>> THEN Ret(st, Prompt)
        ELSE LET r == process_disease_query(st, incoming_msg)
             IN  IF r.exc THEN r
                 ELSE IF Contains(<<SORRY>>, r.val)
                 THEN LET x == extract_symptoms_from_text(r.st, incoming_msg,
                                                          "twilio_webhook")
                      IN  IF x.exc THEN x
                          ELSE IF x.val # <<>>
                          THEN process_symptom_query(x.st, x.val, "twilio_webhook")
                          ELSE Ret(x.st, r.val)
                 ELSE r

\* Lines 190-194 and 216-228: the try block's response, or the except branch's
Responses(r, envelope, apology) ==
    <<[envelope |-> envelope, message |-> IF r.exc THEN apology ELSE r.val]>>

\* ---------------------------------------------------------------- requests and documents

\* The documents the host serves to the webhooks
DiseasesDocs ==
    {JsonArray,
     Mapping(<<Item(<<"A">>, [synonyms |-> << <<"c", "c">> >>])>>),
     Mapping(<<Item(<<"c">>, [synonyms |-> <<>>]), Item(<<"A">>, [synonyms |-> <<>>])>>)}

SymptomsDocs == {Mapping(<<Item(<<"A">>, << <<"f">>, <<"g">> >>)>>)}

PreventionsDocs ==
    {Mapping(<<Item(<<"A">>, << <<"r">> >>)>>),
     Mapping(<<Item(<<"A">>, << <<SORRY, "y">> >>)>>)}

MappingDocs ==
    {JsonArray, Mapping(<<Item(<<"C">>, <<Flu, Cold>>), Item(<<"a">>, <<>>)>>)}

MessageAlphabet == {"a", "A", "c", " "}
Messages == Texts(MessageAlphabet, MaxMessageLen)

Intents == {"symptoms_info", "preventions_info", "disease_info"}
DiseaseParams == {Absent, Str(<<>>), Str(<<"a">>), List(<< <<"A">> >>)}
SymptomParams ==
    {Absent, Str(<<"c">>), List(<< <<"a">> >>), List(<< <<" ">>, <<"c", ",">> >>)}
QueryTexts == {<<>>, <<"c">>, <<"a", "c">>}

Requests ==
    {TwilioRequest(b) : b \in Messages}
    \cup {WebhookRequest(TRUE, "", Absent, Absent, <<>>)}
    \cup {WebhookRequest(FALSE, i, d, sy, q) :
            i \in Intents, d \in DiseaseParams, sy \in SymptomParams, q \in QueryTexts}

\* How many retrievals of each url fail before one succeeds.  The handlers try
\* symptoms.json and preventions.json once per request, and a failure for
\* mapping.json ends the symptom path, so for these only "none" and "all" differ;
\* diseases.json is tried up to three times (lines 155, 77, 45).
FailChoices ==
    {f \in [Urls -> 0..MaxFails] :
        \A u \in Urls :
            /\ u # DISEASES_URL => f[u] \in {0, MaxFails}
            /\ u \in DOMAIN data_cache => f[u] = 0}

Picks == {1, 2}

HandlerOff ==
    /\ request = NoRequest
    /\ handled = FALSE
    /\ sent = <<>>
    /\ fault = FALSE
    /\ trace = <<>>
    /\ nrequests = 0

\* ---------------------------------------------------------------- fetch_json

Workers == 1..NumWorkers

\* The urls the cache checks call fetch_json with
FetchedUrls == {DISEASES_URL, MAPPING_URL}

DocA == Mapping(<<Item(<<"a">>, <<>>)>>)
DocB == Mapping(<<Item(<<"b">>, <<>>)>>)

RemoteDocs == {EmptyDoc, DocA, DocB}

RemoteStates ==
    {Unreachable, Garbage, Served(404, EmptyDoc)} \cup {Served(200, d) : d \in RemoteDocs}

NoUrl == "none"
NoDoc == [shape |-> "none", items |-> <<>>]

Bump(f, u) == [f EXCEPT ![u] = @ + 1]

TotalCalls == calls[DISEASES_URL] + calls[MAPPING_URL]

\* The resolver at rest
ResolveOff ==
    /\ user_input = <<>>
    /\ diseases_data = EmptyDoc
    /\ disease_key = None
    /\ resolved = FALSE

\* The symptom query at rest
SymptomOff ==
    /\ symptoms_list = <<>>
    /\ mapping_data = EmptyDoc
    /\ normalized_symptoms = <<>>
    /\ not_found = <<>>
    /\ possible_diseases = {}
    /\ listing = <<>>
    /\ phase = "off"
    /\ prev_possible = {}

InitCache ==
    /\ data_cache = << >>
    /\ remote \in [Urls -> RemoteStates]
    /\ \A u \in Urls \ FetchedUrls : remote[u] = Unreachable
    /\ pc = [t \in Workers |-> "idle"]
    /\ url = [t \in Workers |-> NoUrl]
    /\ data = [t \in Workers |-> NoDoc]
    /\ ret = [t \in Workers |-> NoDoc]
    /\ hit = [t \in Workers |-> FALSE]
    /\ calls = [u \in Urls |-> 0]
    /\ coldCalls = [u \in Urls |-> 0]
    /\ sawCached = [t \in Workers |-> FALSE]
    /\ fetches = [u \in Urls |-> 0]
    /\ writes = [u \in Urls |-> 0]
    /\ first = [u \in Urls |-> NoDoc]
    /\ ResolveOff
    /\ SymptomOff
    /\ HandlerOff

\* Lines 18-21: the call begins and finds the url in the cache
CallHit(t, u) ==
    /\ pc[t] = "idle"
    /\ TotalCalls < MaxCalls
    /\ InCache(data_cache, u)
    /\ url' = [url EXCEPT ![t] = u]
    /\ ret' = [ret EXCEPT ![t] = data_cache[u]]
    /\ hit' = [hit EXCEPT ![t] = TRUE]
    /\ calls' = Bump(calls, u)
    /\ coldCalls' = IF u \in DOMAIN data_cache THEN coldCalls ELSE Bump(coldCalls, u)
    /\ UNCHANGED <<data_cache, remote, pc, data, sawCached, fetches, writes, first>>
    /\ UNCHANGED nonCacheVars

\* Lines 18-22: the call begins, finds no entry and enters the try block
CallMiss(t, u) ==
    /\ pc[t] = "idle"
    /\ TotalCalls < MaxCalls
    /\ ~InCache(data_cache, u)
    /\ url' = [url EXCEPT ![t] = u]
    /\ pc' = [pc EXCEPT ![t] = "line23"]
    /\ calls' = Bump(calls, u)
    /\ coldCalls' = IF u \in DOMAIN data_cache THEN coldCalls ELSE Bump(coldCalls, u)
    /\ sawCached' = [sawCached EXCEPT ![t] = u \in DOMAIN data_cache]
    /\ UNCHANGED <<data_cache, remote, data, ret, hit, fetches, writes, first>>
    /\ UNCHANGED nonCacheVars

\* Lines 23-25 succeed: the parsed document is in the local `data`
RetrieveOk(t) ==
    /\ pc[t] = "line23"
    /\ ~RetrievalFails(remote[url[t]])
    /\ data' = [data EXCEPT ![t] = ParseJson(remote[url[t]])]
    /\ pc' = [pc EXCEPT ![t] = "line26"]
    /\ fetches' = Bump(fetches, url[t])
    /\ first' = IF first[url[t]] = NoDoc
                THEN [first EXCEPT ![url[t]] = ParseJson(remote[url[t]])]
                ELSE first
    /\ UNCHANGED <<data_cache, remote, url, ret, hit, calls, coldCalls, sawCached, writes>>
    /\ UNCHANGED nonCacheVars

\* Lines 23-25 raise: lines 28-30 return {}
RetrieveFail(t) ==
    /\ pc[t] = "line23"
    /\ RetrievalFails(remote[url[t]])
    /\ data_cache' = OnFailure(data_cache, url[t])
    /\ ret' = [ret EXCEPT ![t] = EmptyDoc]
    /\ hit' = [hit EXCEPT ![t] = FALSE]
    /\ pc' = [pc EXCEPT ![t] = "idle"]
    /\ sawCached' = [sawCached EXCEPT ![t] = FALSE]
    /\ fetches' = Bump(fetches, url[t])
    /\ UNCHANGED <<remote, url, data, calls, coldCalls, writes, first>>
    /\ UNCHANGED nonCacheVars

\* Lines 26-27
StoreAndReturn(t) ==
    /\ pc[t] = "line26"
    /\ data_cache' = Store(data_cache, url[t], data[t])
    /\ writes' = Bump(writes, url[t])
    /\ ret' = [ret EXCEPT ![t] = data[t]]
    /\ hit' = [hit EXCEPT ![t] = FALSE]
    /\ data' = [data EXCEPT ![t] = NoDoc]
    /\ pc' = [pc EXCEPT ![t] = "idle"]
    /\ sawCached' = [sawCached EXCEPT ![t] = FALSE]
    /\ UNCHANGED <<remote, url, calls, coldCalls, fetches, first>>
    /\ UNCHANGED nonCacheVars

\* The host: the file behind a url changes, breaks or disappears
RemoteChange(u) ==
    /\ \E r \in RemoteStates \ {remote[u]} : remote' = [remote EXCEPT ![u] = r]
    /\ UNCHANGED <<data_cache, pc, url, data, ret, hit, calls, coldCalls, sawCached,
                   fetches, writes, first>>
    /\ UNCHANGED nonCacheVars

AllIdle == \A t \in Workers : pc[t] = "idle"

\* Requests served by concurrent threads: calls of fetch_json interleave
NextCache ==
    \/ \E t \in Workers, u \in FetchedUrls : CallHit(t, u)
    \/ \E t \in Workers, u \in FetchedUrls : CallMiss(t, u)
    \/ \E t \in Workers : RetrieveOk(t)
    \/ \E t \in Workers : RetrieveFail(t)
    \/ \E t \in Workers : StoreAndReturn(t)
    \/ \E u \in FetchedUrls : RemoteChange(u)

\* Sequential calls: a call begins only when no other is in progress
NextSeq ==
    \/ \E t \in Workers, u \in FetchedUrls : AllIdle /\ CallHit(t, u)
    \/ \E t \in Workers, u \in FetchedUrls : AllIdle /\ CallMiss(t, u)
    \/ \E t \in Workers : RetrieveOk(t)
    \/ \E t \in Workers : RetrieveFail(t)
    \/ \E t \in Workers : StoreAndReturn(t)
    \/ \E u \in FetchedUrls : RemoteChange(u)

vars == <<cacheVars, resolveVars, symptomVars, handlerVars>>

SpecCache == InitCache /\ [][NextCache]_vars
SpecSeq == InitCache /\ [][NextSeq]_vars

\* ---------------------------------------------------------------- the resolver alone

NameAlphabet == {"a", "A", "b"}
Names == Texts(NameAlphabet, MaxNameLen) \ {<<>>}
Inputs == Texts(NameAlphabet, MaxNameLen)

DiseaseInfos == {[synonyms |-> q] : q \in SeqsUpTo(Names, MaxSynonyms)}
DiseaseItems == {Item(k, v) : k \in Names, v \in DiseaseInfos}

\* A JSON object holds each key once
UniqueKeys(items) == \A i, j \in 1..Len(items) : items[i].key = items[j].key => i = j

DiseaseTables ==
    {Mapping(q) : q \in {x \in SeqsUpTo(DiseaseItems, MaxDiseases) : UniqueKeys(x)}}

CacheOff ==
    /\ data_cache = << >>
    /\ remote = [u \in Urls |-> Unreachable]
    /\ pc = [t \in Workers |-> "idle"]
    /\ url = [t \in Workers |-> NoUrl]
    /\ data = [t \in Workers |-> NoDoc]
    /\ ret = [t \in Workers |-> NoDoc]
    /\ hit = [t \in Workers |-> FALSE]
    /\ calls = [u \in Urls |-> 0]
    /\ coldCalls = [u \in Urls |-> 0]
    /\ sawCached = [t \in Workers |-> FALSE]
    /\ fetches = [u \in Urls |-> 0]
    /\ writes = [u \in Urls |-> 0]
    /\ first = [u \in Urls |-> NoDoc]

InitResolve ==
    /\ CacheOff
    /\ SymptomOff
    /\ HandlerOff
    /\ diseases_data \in DiseaseTables
    /\ user_input \in Inputs
    /\ disease_key = None
    /\ resolved = FALSE

\* find_disease_key(user_input, diseases_data) is called
Resolve ==
    /\ ~resolved
    /\ disease_key' = find_disease_key(user_input, diseases_data)
    /\ resolved' = TRUE
    /\ UNCHANGED <<user_input, diseases_data, cacheVars, symptomVars, handlerVars>>

\* The next text to resolve against the same table
NewInput ==
    /\ resolved
    /\ \E x \in Inputs \ {user_input} : user_input' = x
    /\ disease_key' = None
    /\ resolved' = FALSE
    /\ UNCHANGED <<diseases_data, cacheVars, symptomVars, handlerVars>>

NextResolve == Resolve \/ NewInput

SpecResolve == InitResolve /\ [][NextResolve]_vars

\* ---------------------------------------------------------------- the symptom query alone

\* The elements a symptoms list is made of: plain names in both letter cases, an
\* empty and a blank element, elements to trim, and comma-joined elements
SymptomTexts ==
    {<<>>, <<" ">>, <<"a">>, <<"A">>, <<"b">>, <<" ", "a">>, <<",">>,
     <<"A", ",", " ", "b">>}
SymptomLists == SeqsUpTo(SymptomTexts, MaxSymptoms)

MappingKeys == {<<"a">>, <<"A">>, <<"b">>}
MappingValues == {<<>>, <<Flu>>, <<Flu, Cold>>}
MappingItems == {Item(k, v) : k \in MappingKeys, v \in MappingValues}
MappingTables ==
    {Mapping(q) : q \in {x \in SeqsUpTo(MappingItems, MaxMapKeys) : UniqueKeys(x)}}

InitSymptom ==
    /\ CacheOff
    /\ ResolveOff
    /\ HandlerOff
    /\ symptoms_list \in SymptomLists
    /\ mapping_data \in MappingTables
    /\ normalized_symptoms = <<>>
    /\ not_found = <<>>
    /\ possible_diseases = {}
    /\ listing = <<>>
    /\ phase = "input"
    /\ prev_possible = {}

\* Lines 103-131 of process_symptom_query(list) on mapping_data
Query(list) ==
    LET checked == CheckMapping(Normalize(list), mapping_data, {}, <<>>)
    IN  /\ symptoms_list' = list
        /\ normalized_symptoms' = Normalize(list)
        /\ not_found' = checked.not_found
        /\ possible_diseases' = checked.possible_diseases
        /\ listing' \in Orders(checked.possible_diseases)

\* process_symptom_query(symptoms_list)
ProcessSymptomQuery ==
    /\ phase = "input"
    /\ Query(symptoms_list)
    /\ phase' = "done"
    /\ UNCHANGED <<mapping_data, prev_possible, cacheVars, resolveVars, handlerVars>>

\* The texts that differ from s in letter case only
CaseVariants(s) == {v \in SymptomTexts : Lower(v) = Lower(s)}

\* process_symptom_query again, on the list with one of its symptoms repeated
RepeatSymptom ==
    /\ phase = "done"
    /\ \E i \in 1..Len(symptoms_list) :
           \E v \in CaseVariants(symptoms_list[i]) : Query(Append(symptoms_list, v))
    /\ prev_possible' = possible_diseases
    /\ phase' = "repeated"
    /\ UNCHANGED <<mapping_data, cacheVars, resolveVars, handlerVars>>

NextSymptom == ProcessSymptomQuery \/ RepeatSymptom

SpecSymptom == InitSymptom /\ [][NextSymptom]_vars

\* ---------------------------------------------------------------- the webhooks serving requests

InitHandlers ==
    /\ data_cache = << >>
    /\ \E d \in DiseasesDocs, sy \in SymptomsDocs, pv \in PreventionsDocs,
          m \in MappingDocs :
           remote = [u \in Urls |->
                        Served(200, CASE u = DISEASES_URL -> d
                                      [] u = SYMPTOMS_URL -> sy
                                      [] u = PREVENTIONS_URL -> pv
                                      [] OTHER -> m)]
    /\ pc = [t \in Workers |-> "idle"]
    /\ url = [t \in Workers |-> NoUrl]
    /\ data = [t \in Workers |-> NoDoc]
    /\ ret = [t \in Workers |-> NoDoc]
    /\ hit = [t \in Workers |-> FALSE]
    /\ calls = [u \in Urls |-> 0]
    /\ coldCalls = [u \in Urls |-> 0]
    /\ sawCached = [t \in Workers |-> FALSE]
    /\ fetches = [u \in Urls |-> 0]
    /\ writes = [u \in Urls |-> 0]
    /\ first = [u \in Urls |-> NoDoc]
    /\ ResolveOff
    /\ SymptomOff
    /\ request \in Requests
    /\ handled = FALSE
    /\ sent = <<>>
    /\ fault = FALSE
    /\ trace = <<>>
    /\ nrequests = 1

Serve(r, envelope, apology) ==
    /\ data_cache' = r.st.cache
    /\ sent' = sent \o Responses(r, envelope, apology)
    /\ fault' = r.exc
    /\ trace' = r.st.log
    /\ handled' = TRUE
    /\ UNCHANGED <<request, nrequests, remote, pc, url, data, ret, hit, calls, coldCalls,
                   sawCached, fetches, writes, first, resolveVars, symptomVars>>

\* POST /twilio, lines 197-228
HandleTwilio ==
    /\ ~handled
    /\ request.route = "twilio"
    /\ \E fails \in FailChoices, pick \in Picks :
           Serve(twilio_webhook(CallState(data_cache, fails, pick), request.body),
                 "twiml", TwilioApology)

\* POST /webhook, lines 139-194
HandleWebhook ==
    /\ ~handled
    /\ request.route = "webhook"
    /\ \E fails \in FailChoices, pick \in Picks :
           Serve(webhook(CallState(data_cache, fails, pick), request),
                 "json", WebhookApology)

\* The next request arrives
NextRequest ==
    /\ handled
    /\ nrequests < MaxRequests
    /\ \E req \in Requests : request' = req
    /\ handled' = FALSE
    /\ sent' = <<>>
    /\ fault' = FALSE
    /\ trace' = <<>>
    /\ nrequests' = nrequests + 1
    /\ UNCHANGED <<cacheVars, resolveVars, symptomVars>>

NextHandlers == HandleTwilio \/ HandleWebhook \/ NextRequest

SpecHandlers == InitHandlers /\ [][NextHandlers]_vars

\* ---------------------------------------------------------------- claims: the cache

\* C1: fetch_json caches only successes. While no retrieval of a url has
\* succeeded, the url has no cache entry, every call made for it has performed a
\* retrieval of its own, and every such call returned the empty mapping.
C1_FailuresNotCached ==
    \A u \in FetchedUrls :
        first[u] = NoDoc =>
            /\ u \notin DOMAIN data_cache
            /\ AllIdle => fetches[u] = calls[u]
            /\ \A t \in Workers :
                   (pc[t] = "idle" /\ url[t] = u) => (ret[t] = EmptyDoc /\ ~hit[t])

\* Two calls in a row for an unreachable url, both answered with the empty mapping
C1_Witness ==
    \E u \in FetchedUrls :
        /\ AllIdle
        /\ remote[u] = Unreachable
        /\ calls[u] = 2 /\ fetches[u] = 2
        /\ first[u] = NoDoc
        /\ \E t \in Workers : url[t] = u /\ ret[t] = EmptyDoc

\* C2: with sequential calls, the entry of a url is written once, by the first
\* successful retrieval, and stays: it is never removed or overwritten, no
\* retrieval of the url is made while it exists, and every call answered from the
\* cache returns the document the first success parsed.
C2_PopulatedOnce ==
    /\ [](\A u \in FetchedUrls :
            u \in DOMAIN data_cache => (data_cache[u] = first[u] /\ writes[u] = 1))
    /\ [](\A t \in Workers : (pc[t] = "idle" /\ hit[t]) => ret[t] = first[url[t]])
    /\ [][\A u \in FetchedUrls :
            u \in DOMAIN data_cache =>
                /\ u \in DOMAIN data_cache'
                /\ data_cache'[u] = data_cache[u]
                /\ fetches'[u] = fetches[u]]_vars

\* A call answered from the cache after the host stopped serving that document
C2_Witness ==
    \E t \in Workers :
        /\ pc[t] = "idle" /\ hit[t]
        /\ calls[url[t]] >= 2
        /\ remote[url[t]] # Served(200, first[url[t]])
        /\ ret[t] = first[url[t]]

\* C3: concurrent calls for an uncached url make at most one population write
\* of data_cache[url] in the cold period.
C3_AtMostOneWrite == \A u \in FetchedUrls : writes[u] <= 1

\* What fetch_json does keep under concurrency: a call writes the entry at most
\* once and only when the url had no entry as the call began, so the writes of a
\* url number at most the calls that began while it was uncached.
WritesBoundedByColdCalls ==
    /\ \A u \in FetchedUrls : writes[u] <= coldCalls[u]
    /\ \A t \in Workers : pc[t] \in {"line23", "line26"} => ~sawCached[t]

\* ---------------------------------------------------------------- claims: the resolver

\* No two keys of the table are equal ignoring case, no synonym belongs to two
\* entries: every text names at most one disease by key and one by synonym.
WellFormedTable(items) ==
    /\ \A i, j \in 1..Len(items) : Lower(items[i].key) = Lower(items[j].key) => i = j
    /\ \A i, j \in 1..Len(items) :
           \A m \in 1..Len(items[i].value.synonyms), n \in 1..Len(items[j].value.synonyms) :
               Lower(items[i].value.synonyms[m]) = Lower(items[j].value.synonyms[n]) => i = j

\* C4: find_disease_key returns d when the input equals d ignoring case, whatever
\* the synonyms of the other entries are, and returns d when the input equals a
\* synonym of d ignoring case and equals no key.
C4_KeyThenSynonym ==
    (resolved /\ WellFormedTable(diseases_data.items)) =>
        LET items == diseases_data.items
            low == Lower(user_input)
            keyMatch(i) == Lower(items[i].key) = low
            synMatch(i) == \E m \in 1..Len(items[i].value.synonyms) :
                               Lower(items[i].value.synonyms[m]) = low
        IN  \A i \in 1..Len(items) :
                /\ keyMatch(i) => disease_key = Some(items[i].key)
                /\ (synMatch(i) /\ ~\E j \in 1..Len(items) : keyMatch(j))
                       => disease_key = Some(items[i].key)

\* ---------------------------------------------------------------- claims: the symptom query

\* The distinct input symptoms that named disease d
NamedBy(d) ==
    {Lower(normalized_symptoms[i]) : i \in
        {k \in 1..Len(normalized_symptoms) :
            LET m == MatchingKey(mapping_data.items, 1, Lower(normalized_symptoms[k]))
            IN  m > 0 /\ d \in Range(mapping_data.items[m].value)}}

Count(d) == Cardinality(NamedBy(d))

\* C6: the diseases of a symptom query are listed in descending order of the
\* number of distinct input symptoms that named them (however ties are broken).
C6_RankedByCount ==
    phase \in {"done", "repeated"} =>
        \A i, j \in 1..Len(listing) : i < j => Count(listing[i]) >= Count(listing[j])

\* C7: no token that is empty after trimming is looked up or reported
C7_NoEmptyToken ==
    phase \in {"done", "repeated"} =>
        /\ \A i \in 1..Len(normalized_symptoms) : normalized_symptoms[i] # <<>>
        /\ \A i \in 1..Len(not_found) : not_found[i] # <<>>

\* C8: repeating a symptom of the list, in any letter case, leaves the set of
\* matched diseases as it was for the list without the repetition.
C8_RepeatChangesNothing == phase = "repeated" => possible_diseases = prev_possible

\* A matched symptom repeated in the other case, with a second symptom in the list
C8_Witness ==
    /\ phase = "repeated"
    /\ possible_diseases # {}
    /\ not_found = <<>>
    /\ \E i, j, k \in 1..Len(symptoms_list) :
           /\ i # j
           /\ symptoms_list[i] # symptoms_list[j]
           /\ Lower(symptoms_list[i]) = Lower(symptoms_list[j])
           /\ Lower(symptoms_list[k]) # Lower(symptoms_list[i])

\* ---------------------------------------------------------------- claims: the webhooks

IsScan(ev) == ev.fn = "extract_disease_from_text"

\* An exact match on the same text came before event i and returned nothing
ExactMissBefore(i) ==
    \E j \in 1..(i - 1) :
        /\ trace[j].fn = "find_disease_key"
        /\ trace[j].arg = trace[i].arg
        /\ ~trace[j].ok

\* The first key of the table, in table order, that occurs in the text ignoring case
FirstOccurring(doc, text) ==
    LET keys == Keys(doc)
        occurs == {j \in 1..Len(keys) : Contains(Lower(keys[j]), Lower(text))}
    IN  IF occurs = {} THEN None
        ELSE Some(keys[CHOOSE j \in occurs : \A m \in occurs : j <= m])

\* C5 as stated: the substring scan is consulted only after the exact match on
\* the same input returned absent, and returns the first name that occurs
C5_ScanOnlyAfterExactMiss ==
    \A i \in 1..Len(trace) :
        IsScan(trace[i]) =>
            /\ ExactMissBefore(i)
            /\ trace[i].res = FirstOccurring(trace[i].doc, trace[i].arg)

\* C5 amended: process_disease_query consults the scan only after the exact match
\* on the same input returned nothing; webhook consults it on queryText, before
\* any exact match, when the request has no usable `diseases` parameter. When
\* consulted it returns the first name, in table order, that occurs in the text.
C5_ScanIsFallback ==
    \A i \in 1..Len(trace) :
        IsScan(trace[i]) =>
            /\ \/ trace[i].caller = "process_disease_query" /\ ExactMissBefore(i)
               \/ /\ trace[i].caller = "webhook"
                  /\ i = 1
                  /\ request.route = "webhook"
                  /\ ~ParamTruthy(request.diseases)
                  /\ trace[i].arg = request.queryText
            /\ trace[i].res = FirstOccurring(trace[i].doc, trace[i].arg)

\* The scan ran after an exact miss on a table of which two names occur in the text
C5_Witness ==
    /\ handled
    /\ \E i \in 1..Len(trace) :
           /\ IsScan(trace[i])
           /\ ExactMissBefore(i)
           /\ trace[i].ok
           /\ \A j \in 1..Len(Keys(trace[i].doc)) :
                  Contains(Lower(Keys(trace[i].doc)[j]), Lower(trace[i].arg))
           /\ Len(Keys(trace[i].doc)) = 2

\* C9: every request gets exactly one response, its message is not empty, and an
\* exception inside the handler is answered with the apology.
C9_OneNonEmptyResponse ==
    handled =>
        /\ Len(sent) = 1
        /\ sent[1].message # <<>>
        /\ fault => sent[1].message =
                        (IF request.route = "twilio" THEN TwilioApology ELSE WebhookApology)

\* A document that is no mapping made the handler raise; the apology was sent
C9_Witness ==
    /\ handled
    /\ fault
    /\ ~request.malformed
    /\ Len(sent) = 1

EventsOf(fn) == {i \in 1..Len(trace) : trace[i].fn = fn}

\* C10: twilio_webhook tries a non-empty message as a disease query first; when a
\* disease was found its reply is returned and no symptom is looked for; the reply
\* is the symptom query's only when no disease was found and a mapping key occurs
\* in the message; otherwise it stays the not-found message.
C10_DiseaseFirst ==
    (handled /\ request.route = "twilio" /\ Strip(request.body) # <<>> /\ ~fault) =>
        LET msg == Strip(request.body)
            dq == trace[CHOOSE i \in EventsOf("process_disease_query") : TRUE]
            detect == EventsOf("extract_symptoms_from_text")
            sq == EventsOf("process_symptom_query")
        IN  /\ EventsOf("process_disease_query") # {}
            /\ trace[1].fn = "find_disease_key" /\ trace[1].arg = msg
            /\ dq.ok => (sent[1].message = dq.res /\ detect = {} /\ sq = {})
            /\ sq # {} =>
                   /\ ~dq.ok
                   /\ \E i \in detect : trace[i].ok
                   /\ \A i \in sq : sent[1].message = trace[i].res
            /\ (~dq.ok /\ sq = {}) =>
                   /\ sent[1].message = NotFoundReply(msg)
                   /\ \A i \in detect : ~trace[i].ok

====
